---- MODULE Spec2Model ----
(***************************************************************************)
(* Smart Dining on Campus (src/app.py): the weekly meal-plan optimiser     *)
(* run_optimization (filter -> build -> solve -> extract) and the three    *)
(* step wizard that calls it.                                              *)
(*                                                                         *)
(* A catalog (pandas DataFrame) is a sequence of rows; a row is a function *)
(* from column names to values.  Row i of the code (0-based, after         *)
(* reset_index) is element i+1 of the sequence.  Prices, calories and      *)
(* protein are natural numbers.                                            *)
(***************************************************************************)
EXTENDS Integers, Sequences, FiniteSets, TLC

VARIABLES step, csv_data, results, using_default,  \* st.session_state
          uploaded_file,                           \* the file_uploader widget
          continue_default_shown,                   \* nested button rendered in the last run
          shown,                                    \* st.error messages of the last script run
          call,                                     \* the activation of run_optimization
          twin                                      \* a second activation, to compare

vars == <<step, csv_data, results, using_default, uploaded_file,
          continue_default_shown, shown, call, twin>>

(* Python's None and a value that is not None, as sequences of length 0 and 1. *)
None == <<>>
Some(v) == <<v>>

----------------------------------------------------------------------------
(* Columns of the catalog that run_optimization reads. *)

FlagColumns ==
    {"diabetic_friendly", "contains_gluten", "contains_lactose", "contains_nuts",
     "vegan ", "vegetarian", "pescatarian", "keto_friendly", "kosher", "halal",
     "gaining_weight_diet", "loose_weight_diet", "gaining_muscle_diet",
     "contains_grains", "contains_legumes", "contains_bread", "contains_dairy",
     "spicy", "fried"}

ValueColumns == {"Restaurant", "Meal", "price", "calories_kcal", "protein_g"}

Columns == ValueColumns \cup FlagColumns

(* Mutant: the lactose filter reads the dairy column. *)
FilterRulesDairy ==
    << <<"diabetic", "diabetic_friendly", 1>>,
       <<"celiac", "contains_gluten", 0>>,
       <<"lactose_intolerant", "contains_dairy", 0>>,
       <<"nut_allergy", "contains_nuts", 0>>,
       <<"vegan", "vegan ", 1>>,
       <<"vegetarian", "vegetarian", 1>>,
       <<"pescatarian", "pescatarian", 1>>,
       <<"keto", "keto_friendly", 1>>,
       <<"kosher", "kosher", 1>>,
       <<"halal", "halal", 1>>,
       <<"gain_weight", "gaining_weight_diet", 1>>,
       <<"lose_weight", "loose_weight_diet", 1>>,
       <<"gain_muscle", "gaining_muscle_diet", 1>>,
       <<"avoid_grains", "contains_grains", 0>>,
       <<"avoid_legumes", "contains_legumes", 0>>,
       <<"avoid_bread", "contains_bread", 0>>,
       <<"avoid_dairy", "contains_dairy", 0>>,
       <<"avoid_spicy", "spicy", 0>>,
       <<"avoid_fried", "fried", 0>> >>

(* The preference toggles in the order the filters are applied, each with  *)
(* the column it tests and the value a kept row must have there.           *)
FilterRules ==
    << <<"diabetic", "diabetic_friendly", 1>>,
       <<"celiac", "contains_gluten", 0>>,
       <<"lactose_intolerant", "contains_lactose", 0>>,
       <<"nut_allergy", "contains_nuts", 0>>,
       <<"vegan", "vegan ", 1>>,
       <<"vegetarian", "vegetarian", 1>>,
       <<"pescatarian", "pescatarian", 1>>,
       <<"keto", "keto_friendly", 1>>,
       <<"kosher", "kosher", 1>>,
       <<"halal", "halal", 1>>,
       <<"gain_weight", "gaining_weight_diet", 1>>,
       <<"lose_weight", "loose_weight_diet", 1>>,
       <<"gain_muscle", "gaining_muscle_diet", 1>>,
       <<"avoid_grains", "contains_grains", 0>>,
       <<"avoid_legumes", "contains_legumes", 0>>,
       <<"avoid_bread", "contains_bread", 0>>,
       <<"avoid_dairy", "contains_dairy", 0>>,
       <<"avoid_spicy", "spicy", 0>>,
       <<"avoid_fried", "fried", 0>> >>

Toggles == {FilterRules[k][1] : k \in DOMAIN FilterRules}

Genders == {"male", "female", "other"}

----------------------------------------------------------------------------
(* Synthetic catalogs.  A row is written with the flags in which it        *)
(* differs from a plain row; a plain row has every "friendly"/diet flag 1  *)
(* and every contains_*/spicy/fried flag 0, so it passes every filter and  *)
(* is allowed at dinner.                                                   *)

PlainOnes ==
    {"diabetic_friendly", "vegan ", "vegetarian", "pescatarian", "keto_friendly",
     "kosher", "halal", "gaining_weight_diet", "loose_weight_diet",
     "gaining_muscle_diet"}

Row(r, dish, p, kcal, prot, flip) ==
    [c \in Columns |->
        CASE c = "Restaurant"    -> r
          [] c = "Meal"          -> dish
          [] c = "price"         -> p
          [] c = "calories_kcal" -> kcal
          [] c = "protein_g"     -> prot
          [] OTHER -> IF (c \in PlainOnes) = (c \in flip) THEN 0 ELSE 1]

(* A row that only the grains and legumes filters can keep. *)
Fussy == FlagColumns \ {"contains_grains", "contains_legumes"}

(* 16 meals, four restaurants with four meals each. *)
CatalogBase ==
    << Row("A", "A1",  3, 400, 20, {"contains_legumes", "vegan ", "diabetic_friendly"}),
       Row("A", "A2",  5, 450, 22, {"contains_grains", "vegan ", "diabetic_friendly"}),
       Row("A", "A3",  6, 500, 25, {"vegan ", "gaining_weight_diet", "diabetic_friendly"}),
       Row("A", "A4",  7, 550, 30, {"vegan ", "gaining_weight_diet", "pescatarian",
                                    "contains_nuts"}),
       Row("B", "B1",  5, 600, 18, {"contains_grains", "contains_gluten",
                                    "contains_bread", "vegan ", "contains_nuts"}),
       Row("B", "B2",  6, 650, 35, {"vegan ", "vegetarian", "pescatarian",
                                    "contains_bread", "gaining_muscle_diet"}),
       Row("B", "B3",  8, 700, 40, {"vegan ", "vegetarian", "pescatarian", "kosher",
                                    "contains_bread"}),
       Row("B", "B4",  9, 420, 28, {"vegan ", "gaining_weight_diet", "kosher",
                                    "contains_nuts"}),
       Row("C", "C1",  6, 480, 26, {"contains_legumes", "vegan ", "kosher"}),
       Row("C", "C2",  7, 520, 32, {"vegan ", "loose_weight_diet", "halal"}),
       Row("C", "C3", 10, 560, 38, {"vegan ", "loose_weight_diet", "halal",
                                    "gaining_muscle_diet"}),
       Row("C", "C4", 11, 610, 24, {"vegan ", "contains_lactose", "contains_dairy",
                                    "gaining_weight_diet", "halal"}),
       Row("D", "D1",  8, 630, 27, {"gaining_weight_diet", "loose_weight_diet",
                                    "contains_dairy", "fried"}),
       Row("D", "D2",  9, 670, 33, {"keto_friendly", "vegetarian", "contains_dairy",
                                    "fried"}),
       Row("D", "D3", 12, 710, 36, {"gaining_muscle_diet"}),
       Row("D", "D4", 13, 750, 42, {"spicy", "fried", "contains_gluten"}) >>

MealNames == <<"M1", "M2", "M3", "M4", "M5", "M6", "M7", "M8", "M9", "M10",
               "M11", "M12", "M13", "M14", "M15", "M16">>

(* 10 meals: fewer than a week needs. *)
CatalogTen == SubSeq(CatalogBase, 1, 10)

(* 14 meals of a single restaurant. *)
CatalogOneRestaurant ==
    [k \in 1..14 |-> Row("A", MealNames[k], 5 + (k % 3), 500, 30, Fussy)]

(* 14 meals; "Caesar Salad" is sold by restaurants A and B. *)
CatalogSameDish ==
    [k \in 1..14 |->
        Row(<<"A", "B", "C">>[((k - 1) % 3) + 1],
            IF k \in {1, 2} THEN "Caesar Salad" ELSE MealNames[k],
            4 + (k % 4), 450 + 10 * k, 20 + k,
            IF k \in {3, 6} THEN Fussy \cup {"contains_grains"} ELSE Fussy)]

(* 16 meals; the six cheapest all belong to restaurant A. *)
CatalogCheapRestaurant ==
    [k \in 1..16 |->
        Row(IF k <= 6 THEN "A" ELSE IF k <= 11 THEN "B" ELSE "C",
            MealNames[k],
            IF k <= 5 THEN 2 ELSE IF k = 6 THEN 3 ELSE 5 + (k % 5), 500, 25,
            IF k \in {7, 12} THEN Fussy \cup {"contains_legumes"} ELSE Fussy)]

(* 14 meals of which only six are free of legumes and grains. *)
CatalogFewDinners ==
    [k \in 1..14 |->
        Row(<<"A", "B", "C">>[((k - 1) % 3) + 1], MealNames[k], 5, 500, 25,
            IF k <= 4 THEN Fussy \cup {"contains_legumes"}
            ELSE IF k <= 8 THEN Fussy \cup {"contains_grains"} ELSE Fussy)]

Catalogs == {CatalogBase, CatalogTen, CatalogOneRestaurant, CatalogSameDish,
             CatalogCheapRestaurant, CatalogFewDinners}

----------------------------------------------------------------------------
(* Preference sets: at most MaxToggles toggles set, any gender, a budget.  *)

MaxToggles == 1

(* Positions of the budget slider (line 216: 50 to 300 in steps of 5). *)
Budgets == {50, 100, 300}

Preferences(on, gender, budget) ==
    [k \in Toggles \cup {"gender", "budget"} |->
        CASE k = "gender" -> gender
          [] k = "budget" -> budget
          [] OTHER -> k \in on]

ToggleSets == {on \in SUBSET Toggles : Cardinality(on) <= MaxToggles}

PreferenceSets ==
    {Preferences(on, g, b) : on \in ToggleSets, g \in Genders, b \in Budgets}

----------------------------------------------------------------------------
(* run_optimization, lines 432-472: the filters, applied one after the     *)
(* other in the order of the code.                                         *)

RECURSIVE ApplyFilters(_, _, _)
ApplyFilters(filtered, preferences, k) ==
    IF k > Len(FilterRules) THEN filtered
    ELSE LET rule == FilterRules[k]
             next == IF preferences[rule[1]]
                     THEN SelectSeq(filtered, LAMBDA row : row[rule[2]] = rule[3])
                     ELSE filtered
         IN  ApplyFilters(next, preferences, k + 1)

Filter(df, preferences) == ApplyFilters(df, preferences, 1)

(* Mutant: the threshold is 10. *)
MinMealsTen == 14 - 4

(* Line 474: fewer rows than this raises before the model is built. *)
MinMeals == 14

----------------------------------------------------------------------------
(* run_optimization, lines 477-559: the 0/1 program.                       *)
(* x[(i, d, m)] is a binary variable; an assignment of values to the       *)
(* variables is the set x of the triples <<i, d, m>> whose value is 1.     *)

NumDays == 7
days == 0 .. (NumDays - 1)
day_names == <<"Monday", "Tuesday", "Wednesday", "Thursday", "Friday",
               "Saturday", "Sunday">>
meals == <<"Lunch", "Dinner">>
MealTypes == {meals[k] : k \in DOMAIN meals}

meal_indices(filtered) == 0 .. (Len(filtered) - 1)
loc(filtered, i) == filtered[i + 1]
restaurants(filtered) == {loc(filtered, i)["Restaurant"] : i \in meal_indices(filtered)}

VariableKeys(filtered) == meal_indices(filtered) \X days \X MealTypes

(* lpSum of the variables of x selected by Test(t). *)
Count(x, Test(_)) == Cardinality({t \in x : Test(t)})

RECURSIVE PriceSum(_, _, _)
PriceSum(x, filtered, i) ==
    IF i >= Len(filtered) THEN 0
    ELSE loc(filtered, i)["price"] * Count(x, LAMBDA t : t[1] = i)
         + PriceSum(x, filtered, i + 1)

(* Lines 508-512: the objective. *)
total_cost(x, filtered) == PriceSum(x, filtered, 0)

(* Mutant: the budget is taken per meal. *)
BudgetPerMeal(x, filtered, preferences) ==
    total_cost(x, filtered) <= preferences["budget"] * 14

(* Line 517. *)
BudgetConstraint(x, filtered, preferences) ==
    total_cost(x, filtered) <= preferences["budget"]

(* Line 522: the constraint OneMeal_day{d}_{m}. *)
OneMealAt(x, d, m) == Count(x, LAMBDA t : t[2] = d /\ t[3] = m) = 1

(* Lines 520-522. *)
OneMeal(x, filtered) == \A d \in days, m \in MealTypes : OneMealAt(x, d, m)

(* Line 526: the constraint UniqueMeal_{i}. *)
UniqueMealAt(x, i) == Count(x, LAMBDA t : t[1] = i) <= 1

(* Lines 525-526. *)
UniqueMeal(x, filtered) == \A i \in meal_indices(filtered) : UniqueMealAt(x, i)

MaxPerRestaurantWeek == 5
MaxPerRestaurantDay == 1

(* Mutant: the weekly cap is off by one. *)
MaxRestaurantWeekAtSix(x, filtered, r) ==
    Count(x, LAMBDA t : loc(filtered, t[1])["Restaurant"] = r) <= MaxPerRestaurantWeek + 1

(* Lines 530-534: the constraint MaxRestaurantWeek_{r}. *)
MaxRestaurantWeekAt(x, filtered, r) ==
    Count(x, LAMBDA t : loc(filtered, t[1])["Restaurant"] = r) <= MaxPerRestaurantWeek

(* Lines 529-534. *)
MaxRestaurantWeek(x, filtered) ==
    \A r \in restaurants(filtered) : MaxRestaurantWeekAt(x, filtered, r)

(* Lines 539-543: the constraint MaxRestaurantDay_{d}_{r}. *)
MaxRestaurantDayAt(x, filtered, d, r) ==
    Count(x, LAMBDA t : t[2] = d /\ loc(filtered, t[1])["Restaurant"] = r)
        <= MaxPerRestaurantDay

(* Lines 537-543. *)
MaxRestaurantDay(x, filtered) ==
    \A d \in days, r \in restaurants(filtered) : MaxRestaurantDayAt(x, filtered, d, r)

(* Lines 547-551: the constraint NoLegumesDinner_{d}. *)
NoLegumesDinnerAt(x, filtered, d) ==
    Count(x, LAMBDA t : t[2] = d /\ t[3] = "Dinner"
                        /\ loc(filtered, t[1])["contains_legumes"] = 1) = 0

(* Lines 546-551. *)
NoLegumesDinner(x, filtered) == \A d \in days : NoLegumesDinnerAt(x, filtered, d)

(* Mutant: the grains constraint reads the legumes column. *)
NoGrainsDinnerAtLegumes(x, filtered, d) ==
    Count(x, LAMBDA t : t[2] = d /\ t[3] = "Dinner"
                        /\ loc(filtered, t[1])["contains_legumes"] = 1) = 0

(* Lines 555-559: the constraint NoGrainsDinner_{d}. *)
NoGrainsDinnerAt(x, filtered, d) ==
    Count(x, LAMBDA t : t[2] = d /\ t[3] = "Dinner"
                        /\ loc(filtered, t[1])["contains_grains"] = 1) = 0

(* Lines 554-559. *)
NoGrainsDinner(x, filtered) == \A d \in days : NoGrainsDinnerAt(x, filtered, d)

(* Lines 486-495: the nutritional targets of the gender category. *)
NutritionTargets(preferences) ==
    IF preferences["gender"] = "male"
    THEN [cal_min |-> 1100, cal_max |-> 1600, protein_min |-> 50]
    ELSE IF preferences["gender"] = "female"
    THEN [cal_min |-> 900, cal_max |-> 1400, protein_min |-> 45]
    ELSE [cal_min |-> 1000, cal_max |-> 1500, protein_min |-> 45]

RECURSIVE CaloriesSum(_, _, _)
CaloriesSum(x, filtered, i) ==
    IF i >= Len(filtered) THEN 0
    ELSE loc(filtered, i)["calories_kcal"] * Count(x, LAMBDA t : t[1] = i)
         + CaloriesSum(x, filtered, i + 1)

(* Mutant: the calorie target of the gender category is a constraint on    *)
(* the week.                                                               *)
RowsAloneWithCalories(x, filtered, preferences) ==
    /\ BudgetConstraint(x, filtered, preferences)
    /\ UniqueMeal(x, filtered)
    /\ MaxRestaurantWeek(x, filtered)
    /\ CaloriesSum(x, filtered, 0) >= NutritionTargets(preferences).cal_min * NumDays

(* Lines 517-534: the constraints that sum over every day and slot of a    *)
(* row alike.                                                              *)
RowsAlone(x, filtered, preferences) ==
    /\ BudgetConstraint(x, filtered, preferences)
    /\ UniqueMeal(x, filtered)
    /\ MaxRestaurantWeek(x, filtered)

(* Lines 514-559: every constraint added to prob. *)
Constraints(x, filtered, preferences) ==
    /\ OneMeal(x, filtered)
    /\ RowsAlone(x, filtered, preferences)
    /\ MaxRestaurantDay(x, filtered)
    /\ NoLegumesDinner(x, filtered)
    /\ NoGrainsDinner(x, filtered)

----------------------------------------------------------------------------
(* Line 562: prob.solve(PULP_CBC_CMD).  The solver is a library; what the  *)
(* code relies on is its contract: status Optimal with an assignment that  *)
(* satisfies Constraints and minimises total_cost when one exists, another *)
(* status otherwise.  Which optimal assignment is returned is the solver's *)
(* choice.  The search below is exhaustive:                                *)
(*   - by OneMeal and UniqueMeal an assignment uses NumSlots different     *)
(*     rows; RowSets enumerates every such set of rows;                    *)
(*   - BudgetConstraint, UniqueMeal and MaxRestaurantWeek sum over every   *)
(*     day and slot of a row alike, so they depend on the rows used and    *)
(*     not on their slots: RowsAlone is decided on the set of rows;        *)
(*   - PlaceRows fills the slots in order with the rows of one set, trying *)
(*     every row whose variable breaks none of the constraints it occurs   *)
(*     in and backtracking, so it finds an assignment of the set when      *)
(*     there is one;                                                       *)
(*   - the sets are tried in the order of their cost.                      *)

NumSlots == NumDays * Len(meals)

RECURSIVE KSubsets(_, _)
KSubsets(S, k) ==
    IF k = 0 THEN {{}}
    ELSE IF k < 0 \/ Cardinality(S) < k THEN {}
    ELSE LET e == CHOOSE e \in S : TRUE
         IN  {T \cup {e} : T \in KSubsets(S \ {e}, k - 1)} \cup KSubsets(S \ {e}, k)

RowSets(filtered) ==
    {meal_indices(filtered) \ out :
        out \in KSubsets(meal_indices(filtered), Len(filtered) - NumSlots)}

SlotDay(k) == k \div Len(meals)
SlotMeal(k) == meals[(k % Len(meals)) + 1]

(* The constraints that the variable x[(i, d, m)] occurs in and that read  *)
(* its day or slot, and UniqueMeal_{i}: whether they hold of x.            *)
SlotConstraints(x, filtered, i, d, m) ==
    /\ UniqueMealAt(x, i)
    /\ MaxRestaurantDayAt(x, filtered, d, loc(filtered, i)["Restaurant"])
    /\ NoLegumesDinnerAt(x, filtered, d)
    /\ NoGrainsDinnerAt(x, filtered, d)

OnOneSlot(S) == {<<i, 0, "Lunch">> : i \in S}

(* Rows that a Dinner variable may hold. *)
DinnerRows(filtered) ==
    {i \in meal_indices(filtered) :
        \E d \in days : SlotConstraints({<<i, d, "Dinner">>}, filtered, i, d, "Dinner")}

(* The order in which the rows are tried at a slot does not change what   *)
(* the search can find, only how soon.  A lunch takes a row that no dinner *)
(* may hold first, a restaurant with more rows left comes first, and rows  *)
(* that are equal in both come in increasing (order = "asc") or decreasing *)
(* index order.  Rank gives each row of S a different number; the row of   *)
(* the highest rank is tried first.                                        *)
Rank(filtered, S, dinner, order, k, x) ==
    LET left == {i \in S : \A t \in x : t[1] # i}
        rowsLeft == [r \in restaurants(filtered) |->
                        Cardinality({j \in left : loc(filtered, j)["Restaurant"] = r})]
    IN  [i \in S |->
            ((IF SlotMeal(k) = "Lunch" /\ i \notin dinner THEN NumSlots ELSE 0)
               + rowsLeft[loc(filtered, i)["Restaurant"]]) * Len(filtered)
            + (IF order = "asc" THEN Len(filtered) - 1 - i ELSE i)]

First(rows, rank) == CHOOSE a \in rows : \A b \in rows : rank[a] >= rank[b]

NoAssignment == [found |-> FALSE, x |-> {}]
OrElse(r, alt) == IF r.found THEN r ELSE alt

RECURSIVE PlaceRows(_, _, _, _, _, _), TryRows(_, _, _, _, _, _, _, _),
          TryRow(_, _, _, _, _, _, _, _, _)
PlaceRows(filtered, S, dinner, order, k, x) ==
    IF k = NumSlots THEN [found |-> TRUE, x |-> x]
    ELSE TryRows(filtered, S, dinner, order, k, x,
                 {i \in S : \A t \in x : t[1] # i},
                 Rank(filtered, S, dinner, order, k, x))

(* Try the rows of `rows`, the rows of S that x does not use yet, at slot  *)
(* k in the order of their rank.                                           *)
TryRows(filtered, S, dinner, order, k, x, rows, rank) ==
    IF rows = {} THEN NoAssignment
    ELSE TryRow(filtered, S, dinner, order, k, x, rows, rank, First(rows, rank))

TryRow(filtered, S, dinner, order, k, x, rows, rank, i) ==
    IF SlotConstraints(x \cup {<<i, SlotDay(k), SlotMeal(k)>>},
                       filtered, i, SlotDay(k), SlotMeal(k))
    THEN OrElse(PlaceRows(filtered, S, dinner, order, k + 1,
                          x \cup {<<i, SlotDay(k), SlotMeal(k)>>}),
                TryRows(filtered, S, dinner, order, k, x, rows \ {i}, rank))
    ELSE TryRows(filtered, S, dinner, order, k, x, rows \ {i}, rank)

(* The orders in which the search may try the rows: the solver's choice    *)
(* among the optimal assignments.                                          *)
Orders == {"asc", "desc"}

AssignmentsOf(filtered, S, dinner) ==
    LET found == {PlaceRows(filtered, S, dinner, order, 0, {}) : order \in Orders}
    IN  {r.x : r \in {q \in found : q.found}}

(* A set of rows can only be assigned if the constraints on the rows alone *)
(* hold of it and it has rows enough for the dinners.                      *)
MayBeAssigned(filtered, preferences, S, dinner) ==
    /\ RowsAlone(OnOneSlot(S), filtered, preferences)
    /\ Cardinality(S \cap dinner) >= NumDays

SetCost(filtered, S) == total_cost(OnOneSlot(S), filtered)

Least(costs) == CHOOSE a \in costs : \A b \in costs : a <= b

(* The optimal assignments found among the sets of rows `sets`, cheapest   *)
(* sets first; {} when no set can be assigned.  cost[S] is the cost of S.  *)
RECURSIVE BestOf(_, _, _, _)
BestOf(filtered, sets, cost, dinner) ==
    IF sets = {} THEN {}
    ELSE LET c == Least({cost[S] : S \in sets})
             cheapest == {S \in sets : cost[S] = c}
             found == UNION {AssignmentsOf(filtered, S, dinner) : S \in cheapest}
         IN  IF found # {} THEN found
             ELSE BestOf(filtered, sets \ cheapest, cost, dinner)

AssignSets(filtered, sets, dinner) ==
    BestOf(filtered, sets, [S \in sets |-> SetCost(filtered, S)], dinner)

Candidates(filtered, preferences, dinner) ==
    AssignSets(filtered,
               {S \in RowSets(filtered) : MayBeAssigned(filtered, preferences, S, dinner)},
               dinner)

OptimalAssignments(filtered, preferences) ==
    Candidates(filtered, preferences, DinnerRows(filtered))

(* What prob.solve may leave behind: the status and the variables' values. *)
Solve(filtered, preferences) ==
    LET best == OptimalAssignments(filtered, preferences)
    IN  IF best = {} THEN {[status |-> "Infeasible", x |-> {}]}
        ELSE {[status |-> "Optimal", x |-> x] : x \in best}

----------------------------------------------------------------------------
(* Lines 567-596: the plan and its metrics.                                *)

PlanEntry(filtered, i, d, m) ==
    LET row == loc(filtered, i)
    IN  [day |-> day_names[d + 1], meal_type |-> m,
         restaurant |-> row["Restaurant"], dish |-> row["Meal"],
         price |-> row["price"], calories |-> row["calories_kcal"],
         protein |-> row["protein_g"]]

(* for i in meal_indices: if value(x[(i, d, m)]) > 0.5: append *)
RECURSIVE ExtractRows(_, _, _, _, _)
ExtractRows(x, filtered, d, m, i) ==
    IF i >= Len(filtered) THEN <<>>
    ELSE (IF <<i, d, m>> \in x THEN <<PlanEntry(filtered, i, d, m)>> ELSE <<>>)
         \o ExtractRows(x, filtered, d, m, i + 1)

(* for d in days: for m in meals: ...; k counts the (d, m) pairs done. *)
RECURSIVE ExtractFrom(_, _, _)
ExtractFrom(x, filtered, k) ==
    IF k >= NumSlots THEN <<>>
    ELSE ExtractRows(x, filtered, SlotDay(k), SlotMeal(k), 0)
         \o ExtractFrom(x, filtered, k + 1)

(* Mutant: the loops are nested the other way round, for m: for d. *)
RECURSIVE ExtractMealsFirstFrom(_, _, _)
ExtractMealsFirstFrom(x, filtered, k) ==
    IF k >= NumSlots THEN <<>>
    ELSE ExtractRows(x, filtered, k % NumDays, meals[(k \div NumDays) + 1], 0)
         \o ExtractMealsFirstFrom(x, filtered, k + 1)

ExtractMealsFirst(x, filtered) == ExtractMealsFirstFrom(x, filtered, 0)

Extract(x, filtered) == ExtractFrom(x, filtered, 0)

RECURSIVE SumField(_, _)
SumField(plan, field) ==
    IF plan = <<>> THEN 0 ELSE Head(plan)[field] + SumField(Tail(plan), field)

(* groupby('day')[field].sum().mean(): the total over the plan divided by  *)
(* the number of days that have an entry, kept as a fraction.              *)
DailyMean(plan, field) ==
    [num |-> SumField(plan, field),
     den |-> Cardinality({plan[k].day : k \in DOMAIN plan})]

Metrics(plan, preferences) ==
    [plan |-> plan,
     total_cost |-> SumField(plan, "price"),
     budget_used |-> [num |-> SumField(plan, "price") * 100,
                      den |-> preferences["budget"]],
     avg_calories |-> DailyMean(plan, "calories"),
     avg_protein |-> DailyMean(plan, "protein")]

----------------------------------------------------------------------------
(* run_optimization(df, preferences): the ways one call can end.           *)
(*   raised  the exception it raises, or "none"                            *)
(*   count   the number of meals the NotEnoughMeals message reports        *)
(*   built   whether the decision variables and constraints were built     *)
(*   solves  the number of calls of prob.solve                             *)
(*   ret     the returned dictionary                                       *)

Raise(df, preferences, filtered, kind, built, solves, status) ==
    [pc |-> "raised", df |-> df, preferences |-> preferences, filtered |-> filtered,
     targets |-> IF built THEN Some(NutritionTargets(preferences)) ELSE None,
     raised |-> kind, count |-> Len(filtered), built |-> built, solves |-> solves,
     status |-> status, x |-> {}, ret |-> None]

Return(df, preferences, filtered, s) ==
    [pc |-> "returned", df |-> df, preferences |-> preferences, filtered |-> filtered,
     targets |-> Some(NutritionTargets(preferences)),
     raised |-> "none", count |-> Len(filtered), built |-> TRUE, solves |-> 1,
     status |-> s.status, x |-> s.x,
     ret |-> Some(Metrics(Extract(s.x, filtered), preferences))]

(* Mutant: the status of the solver is not looked at. *)
AfterSolveUnchecked(df, preferences, filtered, s) ==
    Return(df, preferences, filtered, s)

AfterSolve(df, preferences, filtered, s) ==
    IF s.status # "Optimal"
    THEN Raise(df, preferences, filtered, "NotOptimal", TRUE, 1, s.status)
    ELSE Return(df, preferences, filtered, s)

run_optimization(df, preferences) ==
    LET filtered == Filter(df, preferences)
    IN  IF Len(filtered) < MinMeals
        THEN {Raise(df, preferences, filtered, "NotEnoughMeals", FALSE, 0, "Not Solved")}
        ELSE {AfterSolve(df, preferences, filtered, s) :
                s \in Solve(filtered, preferences)}

----------------------------------------------------------------------------
(* The function on its own: every catalog and preference set, one call.    *)

Called(df, preferences) ==
    [pc |-> "called", df |-> df, preferences |-> preferences, filtered |-> <<>>,
     targets |-> None, raised |-> "none", count |-> 0, built |-> FALSE, solves |-> 0,
     status |-> "Not Solved", x |-> {}, ret |-> None]

NoCall == Called(<<>>, Preferences({}, "male", 100))

SessionInit ==
    /\ step = 1
    /\ csv_data = None
    /\ results = None
    /\ using_default = FALSE
    /\ uploaded_file = None
    /\ continue_default_shown = FALSE
    /\ shown = <<>>

InitOpt ==
    /\ SessionInit
    /\ call \in {Called(df, preferences) : df \in Catalogs, preferences \in PreferenceSets}
    /\ twin = NoCall

RunOptimization ==
    /\ call.pc = "called"
    /\ call' \in run_optimization(call.df, call.preferences)
    /\ UNCHANGED <<step, csv_data, results, using_default, uploaded_file,
                   continue_default_shown, shown, twin>>

NextOpt == RunOptimization

SpecOpt == InitOpt /\ [][NextOpt]_vars

----------------------------------------------------------------------------
(* The function called twice on the same catalog, with preference sets     *)
(* that differ in the gender category only.                                *)

InitGender ==
    /\ SessionInit
    /\ \E df \in Catalogs, on \in ToggleSets, b \in Budgets, g1 \in Genders, g2 \in Genders :
          /\ g1 # g2
          /\ call = Called(df, Preferences(on, g1, b))
          /\ twin = Called(df, Preferences(on, g2, b))

RunBoth ==
    /\ call.pc = "called"
    /\ call' \in run_optimization(call.df, call.preferences)
    /\ twin' \in run_optimization(twin.df, twin.preferences)
    /\ UNCHANGED <<step, csv_data, results, using_default, uploaded_file,
                   continue_default_shown, shown>>

NextGender == RunBoth

SpecGender == InitGender /\ [][NextGender]_vars

----------------------------------------------------------------------------
(* The wizard.  Streamlit runs the script from its first line to its last  *)
(* on every interaction, each time in a fresh module namespace; an action  *)
(* is one interaction and the script run (with the run that st.rerun()     *)
(* starts) that answers it.  `shown` and `call` are what the last run      *)
(* displayed and called.  A widget that a run does not render loses its    *)
(* state: the uploaded file is gone once step 2 is drawn.                  *)

(* An uploaded file: its table, and whether it has every required column   *)
(* (lines 116-121).                                                        *)
Files == {[complete |-> TRUE, df |-> df] : df \in Catalogs}
             \cup {[complete |-> FALSE, df |-> <<>>]}

(* load_default_csv, lines 63-72: the table of lunchplandef3.csv, or None  *)
(* when there is no such file or it cannot be read.                        *)
load_default_csv == {None, Some(CatalogBase)}

(* Lines 182-221: the page with no box ticked or with one. *)
PageToggleSets == {{}} \cup {{t} : t \in Toggles}

PagePreferenceSets ==
    {Preferences(on, g, b) : on \in PageToggleSets, g \in Genders, b \in Budgets}

(* Lines 114-141, the upload column of step 1, run on every run of step 1: *)
(* the session catalog after it.                                           *)
AfterUploader(file, catalog) ==
    IF file # None /\ file[1].complete THEN Some(file[1].df) ELSE catalog

UploaderError(file) ==
    IF file # None /\ ~file[1].complete THEN <<"Missing required columns">> ELSE <<>>

(* The user puts a file into the uploader, or takes it out. *)
Upload ==
    /\ step = 1
    /\ \E file \in {None} \cup {Some(f) : f \in Files} :
          /\ file # uploaded_file
          /\ uploaded_file' = file
          /\ csv_data' = AfterUploader(file, csv_data)
          /\ using_default' = IF file # None /\ file[1].complete
                              THEN FALSE ELSE using_default
          /\ shown' = UploaderError(file)
    /\ continue_default_shown' = FALSE
    /\ call' = NoCall
    /\ UNCHANGED <<step, results, twin>>

(* Lines 136-138: shown below a complete uploaded file. *)
ContinueUploaded ==
    /\ step = 1
    /\ uploaded_file # None /\ uploaded_file[1].complete
    /\ csv_data' = Some(uploaded_file[1].df)
    /\ using_default' = FALSE
    /\ step' = 2
    /\ uploaded_file' = None
    /\ continue_default_shown' = FALSE
    /\ shown' = <<>>
    /\ call' = NoCall
    /\ UNCHANGED <<results, twin>>

(* Lines 147-169. *)
UseDefault ==
    /\ step = 1
    /\ \E default_df \in load_default_csv :
          IF default_df # None
          THEN /\ csv_data' = default_df
               /\ using_default' = TRUE
               /\ continue_default_shown' = TRUE
               /\ shown' = UploaderError(uploaded_file)
          ELSE /\ csv_data' = AfterUploader(uploaded_file, csv_data)
               /\ using_default' = IF uploaded_file # None /\ uploaded_file[1].complete
                                   THEN FALSE ELSE using_default
               /\ continue_default_shown' = FALSE
               /\ shown' = UploaderError(uploaded_file) \o <<"Default database not found">>
    /\ call' = NoCall
    /\ UNCHANGED <<step, results, uploaded_file, twin>>

(* Lines 156-158.  The button is drawn inside `if st.button(use_default)`: *)
(* in the run that a click on it starts, use_default is not clicked, so    *)
(* the block that holds lines 156-158 is not run.                          *)
ContinueDefault ==
    /\ step = 1
    /\ continue_default_shown
    /\ csv_data' = AfterUploader(uploaded_file, csv_data)
    /\ using_default' = IF uploaded_file # None /\ uploaded_file[1].complete
                        THEN FALSE ELSE using_default
    /\ continue_default_shown' = FALSE
    /\ shown' = UploaderError(uploaded_file)
    /\ call' = NoCall
    /\ UNCHANGED <<step, results, uploaded_file, twin>>

(* Lines 225-227. *)
BackToUpload ==
    /\ step = 2
    /\ step' = 1
    /\ shown' = <<>>
    /\ call' = NoCall
    /\ UNCHANGED <<csv_data, results, using_default, uploaded_file,
                   continue_default_shown, twin>>

(* The module-level names that are bound when a run reaches line 248: the  *)
(* imports (lines 1-6), REQUIRED_COLUMNS (line 43) and load_default_csv    *)
(* (line 63).  `def run_optimization` is line 429, below the page code.    *)
NamesBoundAtCall ==
    {"st", "pd", "pl", "px", "go", "os", "REQUIRED_COLUMNS", "load_default_csv"}

(* Line 248: the call, as the handler sees it end. *)
CallRunOptimization(df, preferences) ==
    IF "run_optimization" \in NamesBoundAtCall
    THEN run_optimization(df, preferences)
    ELSE {Raise(df, preferences, <<>>, "NameError", FALSE, 0, "Not Solved")}

(* Mutant: the step is advanced before the call. *)
HandleOptimizeStepFirst(session, c) ==
    IF c.raised = "none"
    THEN [session EXCEPT !.results = c.ret, !.step = 3, !.shown = <<>>]
    ELSE [session EXCEPT !.step = 3, !.shown = <<"Optimization failed">>]

(* Lines 235-258: the try block around the call whose outcome is c. *)
HandleOptimize(session, c) ==
    IF c.raised = "none"
    THEN [session EXCEPT !.results = c.ret, !.step = 3, !.shown = <<>>]
    ELSE [session EXCEPT !.shown = <<"Optimization failed">>]

Session ==
    [step |-> step, csv_data |-> csv_data, results |-> results,
     using_default |-> using_default, shown |-> shown]

(* The buttons of the results page.  Line 261 draws the page when step = 3 *)
(* and results is not None; the steps of Next never set step to 3, so the  *)
(* two handlers are given as what they do to a session and are no          *)
(* disjuncts of Next.                                                      *)

(* Lines 416-418: 'Modify Preferences'. *)
ModifyPreferences(session) ==
    [session EXCEPT !.step = 2, !.shown = <<>>]

(* Mutant: the catalog is kept. *)
StartOverKeepsCatalog(session) ==
    [session EXCEPT !.step = 1, !.results = None, !.using_default = FALSE,
                    !.shown = <<>>]

(* Lines 420-425: 'Start Over'. *)
StartOver(session) ==
    [session EXCEPT !.step = 1, !.csv_data = None, !.results = None,
                    !.using_default = FALSE, !.shown = <<>>]

(* Lines 230-258: the 'Generate Optimal Plan' button. *)
GeneratePlan ==
    /\ step = 2
    /\ \E preferences \in PagePreferenceSets :
          IF csv_data = None
          THEN /\ shown' = <<"Please upload a CSV file first">>
               /\ call' = NoCall
               /\ UNCHANGED <<step, csv_data, results>>
          ELSE \E c \in CallRunOptimization(csv_data[1], preferences) :
                  /\ call' = c
                  /\ step' = HandleOptimize(Session, c).step
                  /\ csv_data' = HandleOptimize(Session, c).csv_data
                  /\ results' = HandleOptimize(Session, c).results
                  /\ shown' = HandleOptimize(Session, c).shown
    /\ UNCHANGED <<using_default, uploaded_file, continue_default_shown, twin>>

Init ==
    /\ SessionInit
    /\ call = NoCall
    /\ twin = NoCall

Next ==
    \/ Upload
    \/ ContinueUploaded
    \/ UseDefault
    \/ ContinueDefault
    \/ BackToUpload
    \/ GeneratePlan

Spec == Init /\ [][Next]_vars

----------------------------------------------------------------------------
(* What the claims speak of. *)

Returned == call.pc = "returned"
Raised == call.pc = "raised"
Plan == call.ret[1].plan
Entries == DOMAIN Plan

(* The rule of each toggle as section 4.1 of the specification gives it:   *)
(* whether a row passes the toggle.                                        *)
Passes(row, toggle) ==
    CASE toggle = "diabetic"           -> row["diabetic_friendly"] = 1
      [] toggle = "celiac"             -> row["contains_gluten"] = 0
      [] toggle = "lactose_intolerant" -> row["contains_lactose"] = 0
      [] toggle = "nut_allergy"        -> row["contains_nuts"] = 0
      [] toggle = "vegan"              -> row["vegan "] = 1
      [] toggle = "vegetarian"         -> row["vegetarian"] = 1
      [] toggle = "pescatarian"        -> row["pescatarian"] = 1
      [] toggle = "keto"               -> row["keto_friendly"] = 1
      [] toggle = "kosher"             -> row["kosher"] = 1
      [] toggle = "halal"              -> row["halal"] = 1
      [] toggle = "gain_weight"        -> row["gaining_weight_diet"] = 1
      [] toggle = "lose_weight"        -> row["loose_weight_diet"] = 1
      [] toggle = "gain_muscle"        -> row["gaining_muscle_diet"] = 1
      [] toggle = "avoid_grains"       -> row["contains_grains"] = 0
      [] toggle = "avoid_legumes"      -> row["contains_legumes"] = 0
      [] toggle = "avoid_bread"        -> row["contains_bread"] = 0
      [] toggle = "avoid_dairy"        -> row["contains_dairy"] = 0
      [] toggle = "avoid_spicy"        -> row["spicy"] = 0
      [] toggle = "avoid_fried"        -> row["fried"] = 0

ToggleNames ==
    {"diabetic", "celiac", "lactose_intolerant", "nut_allergy", "vegan", "vegetarian",
     "pescatarian", "keto", "kosher", "halal", "gain_weight", "lose_weight",
     "gain_muscle", "avoid_grains", "avoid_legumes", "avoid_bread", "avoid_dairy",
     "avoid_spicy", "avoid_fried"}

(* The eligible meals: the rows of the catalog, in its order, that pass    *)
(* every toggle that is set.                                               *)
Eligible(df, preferences) ==
    SelectSeq(df, LAMBDA row : \A t \in ToggleNames : preferences[t] => Passes(row, t))

(* The weeks that satisfy every constraint, by the meals they use.  A week *)
(* uses 14 different eligible meals (slot coverage, no-repeat): a set W of *)
(* positions in the eligible sequence.  W can be laid out on the 14 slots  *)
(* within the constraints exactly if its price is within the budget, no    *)
(* restaurant has more than 5 meals in W, and 7 meals of W are free of     *)
(* legumes and grains.  (Only if: the budget and the weekly cap count the  *)
(* meals of W wherever they are, and the 7 dinners are free of both.  If:  *)
(* put 7 such meals on the dinners and the other 7 on the lunches; a       *)
(* restaurant has at most 5 <= 7 meals in W, so by Hall's theorem lunches  *)
(* and dinners can be paired with different restaurants in every pair.)    *)
RECURSIVE PriceOf(_, _)
PriceOf(eligible, W) ==
    IF W = {} THEN 0
    ELSE LET k == CHOOSE k \in W : TRUE
         IN  eligible[k]["price"] + PriceOf(eligible, W \ {k})

Weeks(eligible, budget) ==
    {W \in SUBSET (DOMAIN eligible) :
        /\ Cardinality(W) = 14
        /\ \A k \in W :
              Cardinality({j \in W : eligible[j]["Restaurant"]
                                      = eligible[k]["Restaurant"]}) <= 5
        /\ Cardinality({k \in W : /\ eligible[k]["contains_legumes"] # 1
                                  /\ eligible[k]["contains_grains"] # 1}) >= 7
        /\ PriceOf(eligible, W) <= budget}

(* The days and slots of a week in the order of the plan. *)
WeekSlots ==
    << <<"Monday", "Lunch">>,    <<"Monday", "Dinner">>,
       <<"Tuesday", "Lunch">>,   <<"Tuesday", "Dinner">>,
       <<"Wednesday", "Lunch">>, <<"Wednesday", "Dinner">>,
       <<"Thursday", "Lunch">>,  <<"Thursday", "Dinner">>,
       <<"Friday", "Lunch">>,    <<"Friday", "Dinner">>,
       <<"Saturday", "Lunch">>,  <<"Saturday", "Dinner">>,
       <<"Sunday", "Lunch">>,    <<"Sunday", "Dinner">> >>

(* The catalog row whose variable is 1 at the slot of entry k of the plan. *)
RowsAt(k) ==
    {loc(call.filtered, t[1]) :
        t \in {u \in call.x : /\ day_names[u[2] + 1] = Plan[k].day
                              /\ u[3] = Plan[k].meal_type}}

----------------------------------------------------------------------------
(* C1: in every returned plan no dish (the 'Meal' value of the row) is the *)
(* dish of two entries, also when several rows of the catalog carry the    *)
(* same dish.                                                              *)
C1_NoDishTwice ==
    Returned => \A j, k \in Entries : j # k => Plan[j].dish # Plan[k].dish

(* C2: whenever fewer than 14 meals (catalog rows) are left after the      *)
(* filters, the call raises the not-enough-meals error with the number of  *)
(* eligible meals, and neither variables nor constraints were built and    *)
(* the solver was not called; for the 10-meal catalog the count is 10.     *)
C2_InsufficientInventory ==
    (call.pc # "called" /\ Len(Eligible(call.df, call.preferences)) < 14) =>
        /\ Raised
        /\ call.raised = "NotEnoughMeals"
        /\ call.count = Len(Eligible(call.df, call.preferences))
        /\ ~call.built /\ call.solves = 0 /\ call.x = {} /\ call.targets = None
        /\ call.ret = None
        /\ (Len(call.df) = 10 /\ \A t \in ToggleNames : ~call.preferences[t])
              => call.count = 10

C2_Witness ==
    /\ Raised /\ call.raised = "NotEnoughMeals"
    /\ call.df = CatalogTen /\ call.count = 10

(* C3: every returned plan has exactly 14 entries, entry k being the k-th  *)
(* (day, slot) pair of the week in day order, Lunch before Dinner.         *)
C3_FourteenSlotsInOrder ==
    Returned =>
        /\ Len(Plan) = 14
        /\ \A k \in Entries : <<Plan[k].day, Plan[k].meal_type>> = WeekSlots[k]

C3_Witness ==
    /\ Returned /\ call.df = CatalogBase
    /\ Plan[14].day = "Sunday" /\ Plan[14].meal_type = "Dinner"

(* C4: for every returned plan total_cost is the sum of the entry prices,  *)
(* is at most the weekly budget, and is the least price of a week of       *)
(* eligible meals that satisfies every constraint.                         *)
C4_CostIsMinimal ==
    Returned =>
        LET cost == call.ret[1].total_cost
            eligible == Eligible(call.df, call.preferences)
            weeks == Weeks(eligible, call.preferences["budget"])
        IN  /\ cost = SumField(Plan, "price")
            /\ cost <= call.preferences["budget"]
            /\ \E W \in weeks : PriceOf(eligible, W) = cost
            /\ \A W \in weeks : PriceOf(eligible, W) >= cost

C4_Witness ==
    /\ Returned
    /\ Len(call.filtered) = 15
    /\ call.ret[1].total_cost > 100
    /\ call.preferences["budget"] = 300

(* C5: in every returned plan no restaurant supplies more than 5 entries,  *)
(* and on no day do two entries come from the same restaurant.             *)
C5_RestaurantCaps ==
    Returned =>
        /\ \A k \in Entries :
              Cardinality({j \in Entries : Plan[j].restaurant = Plan[k].restaurant}) <= 5
        /\ \A j, k \in Entries :
              (j # k /\ Plan[j].day = Plan[k].day)
                  => Plan[j].restaurant # Plan[k].restaurant

C5_Witness ==
    /\ Returned /\ call.df = CatalogCheapRestaurant
    /\ Cardinality({j \in Entries : Plan[j].restaurant = "A"}) = 5

(* C6: in every returned plan no Dinner entry is a meal with               *)
(* contains_legumes = 1 or contains_grains = 1, whatever the avoid_legumes *)
(* and avoid_grains preferences are.                                       *)
C6_NoLegumesNoGrainsAtDinner ==
    Returned =>
        \A k \in Entries :
            Plan[k].meal_type = "Dinner" =>
                /\ RowsAt(k) # {}
                /\ \A row \in RowsAt(k) : /\ row["contains_legumes"] # 1
                                          /\ row["contains_grains"] # 1
                                          /\ row["Meal"] = Plan[k].dish

(* a plan made with both preferences unset whose lunches hold a meal with  *)
(* legumes and a meal with grains *)
C6_Witness ==
    /\ Returned
    /\ ~call.preferences["avoid_legumes"] /\ ~call.preferences["avoid_grains"]
    /\ \E k \in Entries : /\ Plan[k].meal_type = "Lunch"
                          /\ \E row \in RowsAt(k) : row["contains_legumes"] = 1
    /\ \E k \in Entries : /\ Plan[k].meal_type = "Lunch"
                          /\ \E row \in RowsAt(k) : row["contains_grains"] = 1

C8_AllOrNothing ==
    (call.pc # "called") =>
        /\ Returned <=> Weeks(Eligible(call.df, call.preferences),
                              call.preferences["budget"]) # {}
        /\ Returned => (call.raised = "none" /\ Len(Plan) = 14)
        /\ ~Returned => (Raised /\ call.raised # "none" /\ call.ret = None)

(* 14 eligible meals of one restaurant: the call fails after the solve *)
C8_Witness ==
    /\ Raised /\ call.raised = "NotOptimal" /\ call.status = "Infeasible"
    /\ Len(call.filtered) >= 14
    /\ Cardinality(restaurants(call.filtered)) = 1
    /\ call.preferences["budget"] = 300

(* a budget below the price of every selection of 14 meals *)
C8_BudgetTooLow ==
    /\ Raised /\ call.raised = "NotOptimal"
    /\ call.df = CatalogBase /\ call.preferences["budget"] = 50

----------------------------------------------------------------------------
(* C9: when an optimization request fails, whatever the failure, the       *)
(* wizard stays on step 2, the stored results and the loaded catalog are   *)
(* what they were before the request, exactly one failure is shown, and    *)
(* the solver has been run at most once, with no second attempt.           *)
RequestFailed ==
    /\ step = 2
    /\ csv_data # None
    /\ call'.pc = "raised"

C9_FailureLeavesSession ==
    [][RequestFailed =>
          /\ step' = 2
          /\ results' = results
          /\ csv_data' = csv_data
          /\ Len(shown') = 1
          /\ call'.solves <= 1]_vars

C9_Witness ==
    /\ step = 2
    /\ call.pc = "raised"
    /\ call.df = csv_data[1]
    /\ call.preferences["vegan"]
    /\ Len(shown) = 1
    /\ results = None

(* C10: two calls on the same catalog whose preferences differ only in the *)
(* gender category end alike: the same failure with the same count, or the *)
(* same solver status and the same total cost, and the assignment of each  *)
(* meets every constraint of the other.                                    *)
C10_GenderChangesNothing ==
    (call.pc # "called" /\ twin.pc # "called") =>
        /\ call.preferences["gender"] # twin.preferences["gender"]
        /\ call.raised = twin.raised
        /\ call.count = twin.count
        /\ call.filtered = twin.filtered
        /\ call.status = twin.status
        /\ call.pc = "returned" =>
              /\ call.ret[1].total_cost = twin.ret[1].total_cost
              /\ Constraints(call.x, call.filtered, twin.preferences)
              /\ Constraints(twin.x, twin.filtered, call.preferences)

C10_Witness ==
    /\ call.pc = "returned"
    /\ twin.pc = "returned"
    /\ call.preferences["gender"] = "male"
    /\ twin.preferences["gender"] = "female"
    /\ call.targets # twin.targets

----------------------------------------------------------------------------
(* C11: in step 2 with a catalog loaded, a click on 'Generate Optimal      *)
(* Plan' with preferences for which some week of eligible meals satisfies  *)
(* every constraint runs run_optimization to its return in that script     *)
(* run, stores the returned plan in results and moves the wizard to step 3.*)
PlanRequested ==
    /\ step = 2
    /\ csv_data # None
    /\ call'.pc # "called"
    /\ Weeks(Eligible(csv_data[1], call'.preferences),
             call'.preferences["budget"]) # {}

C11_GenerateReachesResults ==
    [][PlanRequested =>
          /\ call'.pc = "returned"
          /\ call'.df = csv_data[1]
          /\ results' = call'.ret
          /\ results' # None
          /\ step' = 3]_vars

(* C12: with no file uploaded, a click on 'Continue to Preferences' below   *)
(* the default database that 'Use Default Meal Database' has just loaded   *)
(* brings the wizard to step 2 with the default data as session catalog    *)
(* and using_default true.                                                 *)
C12_DefaultReachesPreferences ==
    [][(ContinueDefault /\ uploaded_file = None /\ using_default) =>
          /\ step' = 2
          /\ csv_data' \in load_default_csv \ {None}
          /\ using_default']_vars

(* C13: in every state of the wizard step is 1, 2 or 3, step 3 comes with  *)
(* results, and steps 2 and 3 come with a session catalog; and the 'Start  *)
(* Over' handler, applied to the session of any state, and again after     *)
(* 'Modify Preferences', gives the initial values: step 1, no catalog, no  *)
(* results, using_default false.                                           *)
InitialSession ==
    [step |-> 1, csv_data |-> None, results |-> None,
     using_default |-> FALSE, shown |-> <<>>]

C13_SessionInvariant ==
    /\ step \in {1, 2, 3}
    /\ step = 3 => results # None
    /\ step \in {2, 3} => csv_data # None
    /\ StartOver(Session) = InitialSession
    /\ StartOver(ModifyPreferences(Session)) = InitialSession

C13_Witness ==
    /\ step = 2
    /\ csv_data # None
    /\ call.pc = "raised"
    /\ Session # InitialSession
    /\ StartOver(Session) # Session

====
